---- MODULE Spec2Model ----
(***************************************************************************)
(* Model of reflred/err1d.py: error propagation over (value, variance)     *)
(* arrays.  The Python functions are kept as statement lists, one entry    *)
(* per source line, and run by an interpreter over a heap of objects, so   *)
(* that name binding (T = Y), fresh allocation (Z = X/Y) and in-place      *)
(* update (T **= 2) keep the meaning they have in Python with numpy.       *)
(***************************************************************************)
EXTENDS Integers, Sequences, FiniteSets, TLC

VARIABLES heap, env, op, pc, ret, pre, written

vars == <<heap, env, op, pc, ret, pre, written>>

(***************************************************************************)
(* Floating point numbers.  A number is <<n, d>>: the rational n/d in      *)
(* lowest terms with d > 0, or one of the IEEE special values, d = 0:      *)
(* <<0,0>> is NaN, <<1,0>> is +inf, <<-1,0>> is -inf.  Rounding and signed *)
(* zeros are not modelled.                                                 *)
(***************************************************************************)
Abs(i) == IF i < 0 THEN -i ELSE i

Sgn(i) == IF i > 0 THEN 1 ELSE IF i < 0 THEN -1 ELSE 0

RECURSIVE Gcd(_, _)
Gcd(a, b) == IF b = 0 THEN a ELSE Gcd(b, a % b)

Lowest(n, d, g) == <<n \div g, d \div g>>

\* the number n/d
Q(n, d) ==
    IF d = 0 THEN <<Sgn(n), 0>>
    ELSE Lowest(Sgn(d) * n, Abs(d), Gcd(Abs(n), Abs(d)))

NaN == <<0, 0>>

PosInf == <<1, 0>>

IsNaN(a) == a = NaN

IsInf(a) == a[2] = 0 /\ a[1] # 0

IsFinite(a) == a[2] # 0

IsZero(a) == a[2] # 0 /\ a[1] = 0

fNeg(a) == <<-a[1], a[2]>>

fAdd(a, b) ==
    IF IsNaN(a) \/ IsNaN(b) THEN NaN
    ELSE IF IsInf(a) /\ IsInf(b) THEN (IF a = b THEN a ELSE NaN)
    ELSE IF IsInf(a) THEN a
    ELSE IF IsInf(b) THEN b
    ELSE Q(a[1] * b[2] + b[1] * a[2], a[2] * b[2])

fSub(a, b) == fAdd(a, fNeg(b))

fMul(a, b) ==
    IF IsNaN(a) \/ IsNaN(b) THEN NaN
    ELSE IF IsInf(a) \/ IsInf(b)
         THEN (IF IsZero(a) \/ IsZero(b) THEN NaN
               ELSE <<Sgn(a[1]) * Sgn(b[1]), 0>>)
    ELSE Q(a[1] * b[1], a[2] * b[2])

\* numpy array division: x/0 is +-inf, 0/0 is NaN, nothing is raised
fDiv(a, b) ==
    IF IsNaN(a) \/ IsNaN(b) THEN NaN
    ELSE IF IsInf(a) THEN (IF IsInf(b) THEN NaN
                           ELSE IF b[1] < 0 THEN fNeg(a) ELSE a)
    ELSE IF IsInf(b) THEN <<0, 1>>
    ELSE Q(a[1] * b[2], a[2] * b[1])

RECURSIVE fPowInt(_, _)
fPowInt(a, k) ==
    IF k = 0 THEN <<1, 1>>
    ELSE IF k < 0 THEN fDiv(<<1, 1>>, fPowInt(a, -k))
    ELSE fMul(a, fPowInt(a, k - 1))

\* x ** y; the model's exponents are whole numbers
fPow(a, b) == IF b[2] = 1 THEN fPowInt(a, b[1]) ELSE NaN

fLt(a, b) ==
    /\ ~IsNaN(a)
    /\ ~IsNaN(b)
    /\ IF a[2] = 0 /\ b[2] = 0 THEN a[1] < b[1]
       ELSE a[1] * b[2] < b[1] * a[2]

fLe(a, b) == ~IsNaN(a) /\ ~IsNaN(b) /\ ~fLt(b, a)

(***************************************************************************)
(* The numpy functions the module calls.  Each returns the float nearest   *)
(* to the mathematical value; the model returns a rational approximation   *)
(* with the same sign, zeros and special values.                           *)
(***************************************************************************)
\* 1 + x + x^2/2
npExp(x) ==
    IF IsNaN(x) THEN NaN
    ELSE IF IsInf(x) THEN (IF x[1] > 0 THEN PosInf ELSE <<0, 1>>)
    ELSE Q(2 * x[2] * x[2] + 2 * x[1] * x[2] + x[1] * x[1], 2 * x[2] * x[2])

npLog(x) ==
    IF IsNaN(x) \/ x[1] < 0 THEN NaN
    ELSE IF IsZero(x) THEN <<-1, 0>>
    ELSE IF IsInf(x) THEN PosInf
    ELSE Q(2 * (x[1] - x[2]), x[1] + x[2])       \* 2(x - 1)/(x + 1)

\* x - x^3/6
npSin(x) ==
    IF ~IsFinite(x) THEN NaN
    ELSE Q(x[1] * (6 * x[2] * x[2] - x[1] * x[1]), 6 * x[2] * x[2] * x[2])

\* 1 - x^2/2
npCos(x) ==
    IF ~IsFinite(x) THEN NaN
    ELSE Q(2 * x[2] * x[2] - x[1] * x[1], 2 * x[2] * x[2])

npTan(x) == fDiv(npSin(x), npCos(x))

\* x/(1 + 7x^2/25), and pi/2 = 11/7 at infinity
npArctan(x) ==
    IF IsNaN(x) THEN NaN
    ELSE IF IsInf(x) THEN <<11 * x[1], 7>>
    ELSE Q(25 * x[1] * x[2], 25 * x[2] * x[2] + 7 * x[1] * x[1])

\* x(1 + 4x^2/7) on [-1, 1]
npArcsin(x) ==
    IF ~IsFinite(x) \/ Abs(x[1]) > x[2] THEN NaN
    ELSE Q(x[1] * (7 * x[2] * x[2] + 4 * x[1] * x[1]), 7 * x[2] * x[2] * x[2])

npArccos(x) == fSub(<<11, 7>>, npArcsin(x))

\* the quadrant of (y, x) added to arctan(x/y); the first argument is the sine
Quadrant(x, y) ==
    IF y[1] > 0 THEN <<0, 1>>
    ELSE IF x[1] < 0 THEN <<-22, 7>> ELSE <<22, 7>>

npArctan2(x, y) ==
    IF IsNaN(x) \/ IsNaN(y) THEN NaN
    ELSE IF IsZero(y) THEN <<11 * Sgn(x[1]), 7>>
    ELSE fAdd(npArctan(fDiv(x, y)), Quadrant(x, y))

\* the attributes of the numpy module that the source names and numpy has
NumpyNames ==
    {"exp", "log", "sin", "cos", "tan", "arcsin", "arccos", "arctan",
     "arctan2", "searchsorted"}

(***************************************************************************)
(* Python objects.  Every object carries its type: a numpy array of        *)
(* floats, a two-dimensional array (a sequence of rows), a boolean mask,   *)
(* a scalar number, a string, a tuple of objects, None, or a raised        *)
(* exception.                                                              *)
(***************************************************************************)
Arr(s) == [t |-> "arr", v |-> s]

Arr2(rows) == [t |-> "arr2", v |-> rows]

Mask(s) == [t |-> "mask", v |-> s]

Num(x) == [t |-> "num", v |-> x]

Tup(s) == [t |-> "tuple", v |-> s]

Err(e) == [t |-> "err", v |-> e]

NoneV == [t |-> "none", v |-> <<>>]

\* the shape numpy reports for an object
Shape(x) ==
    CASE x.t = "arr" -> <<Len(x.v)>>
      [] x.t = "mask" -> <<Len(x.v)>>
      [] x.t = "arr2" -> <<Len(x.v), Len(x.v[1])>>
      [] OTHER -> <<>>

HasErr(xs) == \E i \in 1..Len(xs) : xs[i].t = "err"

\* the exception of the first operand that raised
FirstErr(xs) ==
    xs[CHOOSE i \in 1..Len(xs) :
           xs[i].t = "err" /\ \A j \in 1..(i - 1) : xs[j].t # "err"]

IsCompare(o) == o \in {"<", ">"}

\* one element of an operator: a float, or a boolean for a comparison
ElemOp(o, a, b) ==
    CASE o = "+" -> fAdd(a, b)
      [] o = "-" -> fSub(a, b)
      [] o = "*" -> fMul(a, b)
      [] o = "/" -> fDiv(a, b)
      [] o = "**" -> fPow(a, b)
      [] o = "<" -> fLt(a, b)
      [] o = ">" -> fLt(b, a)

\* the operator over two rows of the same length
RowOp(o, s, u) == [i \in 1..Len(s) |-> ElemOp(o, s[i], u[i])]

\* an operand as rows of n items: a scalar is broadcast, a tuple of arrays
\* becomes the rows of a two-dimensional array (numpy's array conversion)
Rows(x, n) ==
    CASE x.t = "arr" -> <<x.v>>
      [] x.t = "num" -> <<[i \in 1..n |-> x.v]>>
      [] x.t = "tuple" -> [r \in 1..Len(x.v) |-> x.v[r].v]

Width(x, y) ==
    IF x.t = "arr" THEN Len(x.v)
    ELSE IF y.t = "arr" THEN Len(y.v)
    ELSE 1

\* the result rows as an object of the type the operands give
Wrap(o, x, y, rows) ==
    IF x.t = "tuple" THEN Arr2(rows)
    ELSE IF x.t = "num" /\ y.t = "num"
         THEN (IF IsCompare(o) THEN Mask(rows[1]) ELSE Num(rows[1][1]))
    ELSE IF IsCompare(o) THEN Mask(rows[1])
    ELSE Arr(rows[1])

\* x o y.  Two arrays need the same length; Python's own numbers raise
\* where numpy arrays return inf or NaN; a tuple has no arithmetic of its
\* own, so numpy's reflected operator takes it as a two-dimensional array.
BinOp(o, x, y) ==
    IF x.t = "err" THEN x
    ELSE IF y.t = "err" THEN y
    ELSE IF x.t = "arr" /\ y.t = "arr" /\ Len(x.v) # Len(y.v)
         THEN Err("ValueError")
    ELSE IF /\ x.t = "num"
            /\ y.t = "num"
            /\ \/ o = "/" /\ IsZero(y.v)
               \/ o = "**" /\ IsZero(x.v) /\ y.v[1] < 0
         THEN Err("ZeroDivisionError")
    ELSE IF \/ x.t \in {"arr", "num"} /\ y.t \in {"arr", "num"}
            \/ /\ x.t = "tuple"
               /\ y.t = "arr"
               /\ ~IsCompare(o)
               /\ \A r \in 1..Len(x.v) :
                      x.v[r].t = "arr" /\ Len(x.v[r].v) = Len(y.v)
         THEN Wrap(o, x, y,
                   [r \in 1..Len(Rows(x, Width(x, y))) |->
                       RowOp(o, Rows(x, Width(x, y))[r],
                                Rows(y, Width(x, y))[1])])
    ELSE Err("TypeError")

Ufunc(f, a) ==
    CASE f = "exp" -> npExp(a[1])
      [] f = "log" -> npLog(a[1])
      [] f = "sin" -> npSin(a[1])
      [] f = "cos" -> npCos(a[1])
      [] f = "tan" -> npTan(a[1])
      [] f = "arcsin" -> npArcsin(a[1])
      [] f = "arccos" -> npArccos(a[1])
      [] f = "arctan" -> npArctan(a[1])
      [] f = "arctan2" -> npArctan2(a[1], a[2])

\* np.searchsorted(a, v, side) on a sorted array a: for each query the number
\* of entries of a that are <= it (side="right") or < it (side="left")
SearchSorted(a, v, side) ==
    [j \in 1..Len(v) |->
        <<Cardinality({i \in 1..Len(a) :
              IF side = "right" THEN fLe(a[i], v[j]) ELSE fLt(a[i], v[j])}), 1>>]

\* np.f(args) for arrays
NpApply(f, args) ==
    IF HasErr(args) THEN FirstErr(args)
    ELSE IF f = "searchsorted"
         THEN (IF args[1].t = "arr" /\ args[2].t = "arr" /\ args[3].t = "str"
               THEN Arr(SearchSorted(args[1].v, args[2].v, args[3].v))
               ELSE Err("TypeError"))
    ELSE IF \A i \in 1..Len(args) :
                args[i].t = "arr" /\ Len(args[i].v) = Len(args[1].v)
         THEN Arr([i \in 1..Len(args[1].v) |->
                      Ufunc(f, [j \in 1..Len(args) |-> args[j].v[i]])])
    ELSE Err("TypeError")

\* position (from 1) of Python index i in a sequence of n items, 0 if out of range
PyIndex(n, i) ==
    IF 0 <= i /\ i < n THEN i + 1
    ELSE IF -n <= i /\ i < 0 THEN n + i + 1
    ELSE 0

\* a[i]: an integer picks one item, an array of integers gathers a new array
Subscript(a, i) ==
    IF a.t = "err" THEN a
    ELSE IF i.t = "err" THEN i
    ELSE IF a.t # "arr" \/ i.t \notin {"num", "arr"} THEN Err("TypeError")
    ELSE IF \E j \in 1..Len(Rows(i, 1)[1]) :
                PyIndex(Len(a.v), Rows(i, 1)[1][j][1]) = 0
         THEN Err("IndexError")
    ELSE IF i.t = "num" THEN Num(a.v[PyIndex(Len(a.v), i.v[1])])
    ELSE Arr([j \in 1..Len(i.v) |-> a.v[PyIndex(Len(a.v), i.v[j][1])]])

SliceBound(n, b) == IF b < 0 THEN (IF n + b < 0 THEN 0 ELSE n + b)
                    ELSE (IF b > n THEN n ELSE b)

\* a[lo:hi]
PySlice(a, lo, hi) ==
    IF a.t = "err" THEN a
    ELSE IF a.t # "arr" THEN Err("TypeError")
    ELSE Arr(SubSeq(a.v, SliceBound(Len(a.v), lo) + 1,
                    SliceBound(Len(a.v), hi)))

(***************************************************************************)
(* Python expressions and statements, as the source writes them.           *)
(***************************************************************************)
N(id) == [k |-> "name", c |-> id, args |-> <<>>]

K(c) == [k |-> "const", c |-> c, args |-> <<>>]

Str(c) == [k |-> "str", c |-> c, args |-> <<>>]

Bin(o, a, b) == [k |-> "bin", c |-> o, args |-> <<a, b>>]

Add(a, b) == Bin("+", a, b)

Sub(a, b) == Bin("-", a, b)

Mul(a, b) == Bin("*", a, b)

Div(a, b) == Bin("/", a, b)

Pow(a, b) == Bin("**", a, b)

Lt(a, b) == Bin("<", a, b)

Gt(a, b) == Bin(">", a, b)

\* np.f(args)
NpCall(f, args) == [k |-> "np", c |-> f, args |-> args]

\* a[i]
At(a, i) == [k |-> "index", c |-> "", args |-> <<a, i>>]

\* a[lo:hi]
Slice(a, lo, hi) == [k |-> "slice", c |-> <<lo, hi>>, args |-> <<a>>]

\* a, b
Pair(a, b) == [k |-> "tuple", c |-> "", args |-> <<a, b>>]

\* f(args), f a function of this module and args names
CallFn(f, args) == [k |-> "call", c |-> f, args |-> args]

\* tgt = e
Assign(tgt, e) == [s |-> "assign", tgt |-> tgt, e |-> e]

\* tgt o= e
Aug(tgt, o, e) == [s |-> "aug", tgt |-> tgt, o |-> o, e |-> e]

\* del tgt
Del(tgt) == [s |-> "del", tgt |-> tgt]

\* if tgt is None: tgt = e
IfNone(tgt, e) == [s |-> "ifnone", tgt |-> tgt, e |-> e]

\* tgt[m] = e[i], one store of the statement  t0[m], t1[m] = e
SetItem(tgt, m, e, i) ==
    [s |-> "setitem", tgt |-> tgt, e |-> e, e2 |-> m, i |-> i]

\* return a, b
Return(a, b) == [s |-> "return", e |-> a, e2 |-> b]

(***************************************************************************)
(* The functions of err1d.py, statement by statement.                      *)
(***************************************************************************)
\* Variants of lines and bodies of the source, each with one slip, against
\* which the properties at the end of the module are tried.
idx_in_whole_table ==
    Assign("idx", NpCall("searchsorted",
                    <<Slice(N("Xp"), 0, -1), N("X"), Str("right")>>))

F_weights_swapped ==
    Assign("F", Add(Mul(Sub(K(1), N("p")), At(N("Fp"), N("idx"))),
                    Mul(N("p"), At(N("Fp"), Add(N("idx"), K(1))))))

left_from_last_point ==
    IfNone("left", Pair(At(N("Fp"), K(-1)), At(N("varFp"), K(-1))))

add_into_X ==
    << Assign("Z", N("X")),
       Aug("Z", "+", N("Y")),
       Assign("varZ", Add(N("varX"), N("varY"))),
       Return(N("Z"), N("varZ")) >>

pow_times_n ==
    << Assign("Z", Pow(N("X"), N("n"))),
       Assign("varZ", Div(N("varX"), N("X"))),
       Aug("varZ", "/", N("X")),
       Aug("varZ", "*", N("Z")),
       Aug("varZ", "*", N("Z")),
       Aug("varZ", "*", N("n")),
       Return(N("Z"), N("varZ")) >>

\* idx = np.searchsorted(Xp[1:-1], X, side="right")
interp_idx ==
    Assign("idx", NpCall("searchsorted",
                    <<Slice(N("Xp"), 1, -1), N("X"), Str("right")>>))

\* F = p*Fp[idx] + (1-p)*Fp[idx+1]
interp_F ==
    Assign("F", Add(Mul(N("p"), At(N("Fp"), N("idx"))),
                    Mul(Sub(K(1), N("p")), At(N("Fp"), Add(N("idx"), K(1))))))

\* if left is None: left = Fp[0], varFp[0]
interp_left ==
    IfNone("left", Pair(At(N("Fp"), K(0)), At(N("varFp"), K(0))))

interp ==
    << interp_idx,
       Assign("p", Div(Sub(At(N("Xp"), Add(N("idx"), K(1))), N("X")),
                       Sub(At(N("Xp"), Add(N("idx"), K(1))),
                           At(N("Xp"), N("idx"))))),
       interp_F,
       Assign("varF", Add(Mul(Pow(N("p"), K(2)), At(N("varFp"), N("idx"))),
                          Mul(Pow(Sub(K(1), N("p")), K(2)),
                              At(N("varFp"), Add(N("idx"), K(1)))))),
       interp_left,
       IfNone("right", Pair(At(N("Fp"), K(-1)), At(N("varFp"), K(-1)))),
       SetItem("F", Lt(N("X"), At(N("Xp"), K(0))), N("left"), 1),
       SetItem("varF", Lt(N("X"), At(N("Xp"), K(0))), N("left"), 2),
       SetItem("F", Gt(N("X"), At(N("Xp"), K(-1))), N("right"), 1),
       SetItem("varF", Gt(N("X"), At(N("Xp"), K(-1))), N("right"), 2),
       Return(N("F"), N("varF")) >>

div ==
    << Assign("Z", Div(N("X"), N("Y"))),
       Assign("varZ", Pow(N("Z"), K(2))),
       Aug("varZ", "*", N("varY")),
       Aug("varZ", "+", N("varX")),
       Assign("T", Pow(N("Y"), K(2))),
       Aug("varZ", "/", N("T")),
       Return(N("Z"), N("varZ")) >>

mul ==
    << Assign("Z", Mul(N("X"), N("Y"))),
       Assign("varZ", Add(Mul(Pow(N("Y"), K(2)), N("varX")),
                          Mul(Pow(N("X"), K(2)), N("varY")))),
       Return(N("Z"), N("varZ")) >>

sub ==
    << Assign("Z", Sub(N("X"), N("Y"))),
       Assign("varZ", Add(N("varX"), N("varY"))),
       Return(N("Z"), N("varZ")) >>

add ==
    << Assign("Z", Add(N("X"), N("Y"))),
       Assign("varZ", Add(N("varX"), N("varY"))),
       Return(N("Z"), N("varZ")) >>

exp ==
    << Assign("Z", NpCall("exp", <<N("X")>>)),
       Assign("varZ", Mul(N("varX"), Pow(N("Z"), K(2)))),
       Return(N("Z"), N("varZ")) >>

log ==
    << Assign("Z", NpCall("log", <<N("X")>>)),
       Assign("varZ", Div(N("varX"), Pow(N("X"), K(2)))),
       Return(N("Z"), N("varZ")) >>

sin ==
    << Return(NpCall("sin", <<N("X")>>),
              Mul(N("varX"), Pow(NpCall("cos", <<N("X")>>), K(2)))) >>

cos ==
    << Return(NpCall("cos", <<N("X")>>),
              Mul(N("varX"), Pow(NpCall("sin", <<N("X")>>), K(2)))) >>

tan ==
    << Return(NpCall("tan", <<N("X")>>),
              Mul(N("varX"), Pow(NpCall("sec", <<N("X")>>), K(2)))) >>

arcsin ==
    << Return(NpCall("arcsin", <<N("x")>>),
              Div(N("varX"), Sub(K(1), Pow(N("X"), K(2))))) >>

arccos ==
    << Return(NpCall("arccos", <<N("x")>>),
              Div(N("varX"), Sub(K(1), Pow(N("X"), K(2))))) >>

arctan ==
    << Return(NpCall("arctan", <<N("X")>>),
              Div(N("varX"), Pow(Add(K(1), Pow(N("X"), K(2))), K(2)))) >>

arctan2 ==
    << Assign("Z", NpCall("arctan2", <<N("X"), N("Y")>>)),
       Assign("varZ",
              Div(CallFn("div", <<N("X"), N("varX"), N("Y"), N("varY")>>),
                  Pow(Add(K(1), Pow(Div(N("X"), N("Y")), K(2))), K(2)))),
       Return(N("Z"), N("varZ")) >>

pow ==
    << Assign("Z", Pow(N("X"), N("n"))),
       Assign("varZ", Div(N("varX"), N("X"))),
       Aug("varZ", "/", N("X")),
       Aug("varZ", "*", N("Z")),
       Aug("varZ", "*", N("Z")),
       Aug("varZ", "*", Pow(N("n"), K(2))),
       Return(N("Z"), N("varZ")) >>

pow2 ==
    << Assign("Z", Pow(N("X"), N("Y"))),
       Assign("varZ", Div(N("varX"), N("X"))),
       Aug("varZ", "*", N("Y")),
       Aug("varZ", "*", N("varZ")),
       Assign("T", NpCall("log", <<N("X")>>)),
       Aug("T", "*", N("varY")),
       Aug("T", "*", N("T")),
       Aug("varZ", "+", N("T")),
       Del("T"),
       Aug("varZ", "*", N("Z")),
       Aug("varZ", "*", N("Z")),
       Return(N("Z"), N("varZ")) >>

div_inplace ==
    << Aug("X", "/", N("Y")),
       Assign("T", Pow(N("X"), K(2))),
       Aug("T", "*", N("varY")),
       Aug("varX", "+", N("T")),
       Del("T"),
       Assign("T", N("Y")),
       Aug("T", "**", K(2)),
       Aug("varX", "/", N("T")),
       Return(N("X"), N("varX")) >>

mul_inplace ==
    << Assign("T", Pow(N("Y"), K(2))),
       Aug("varX", "*", N("T")),
       Del("T"),
       Assign("T", N("X")),
       Aug("T", "**", K(2)),
       Aug("T", "*", N("varY")),
       Aug("varX", "+", N("T")),
       Aug("X", "*", N("Y")),
       Return(N("X"), N("varX")) >>

sub_inplace ==
    << Aug("X", "-", N("Y")),
       Aug("varX", "+", N("varY")),
       Return(N("X"), N("varX")) >>

add_inplace ==
    << Aug("X", "+", N("Y")),
       Aug("varX", "+", N("varY")),
       Return(N("X"), N("varX")) >>

pow_inplace ==
    << Aug("varX", "/", N("X")),
       Aug("varX", "/", N("X")),
       Aug("X", "**", N("n")),
       Aug("varX", "*", N("X")),
       Aug("varX", "*", N("X")),
       Aug("varX", "*", Pow(N("n"), K(2))),
       Return(N("X"), N("varX")) >>

pow2_inplace ==
    << Aug("varX", "/", N("X")),
       Aug("varX", "*", N("Y")),
       Aug("varX", "*", N("varX")),
       Assign("T", NpCall("log", <<N("X")>>)),
       Aug("T", "*", N("varY")),
       Aug("T", "*", N("T")),
       Aug("varX", "+", N("T")),
       Del("T"),
       Aug("X", "**", N("Y")),
       Aug("varX", "*", N("X")),
       Aug("varX", "*", N("X")),
       Return(N("X"), N("varX")) >>

Unary == {"exp", "log", "sin", "cos", "tan", "arcsin", "arccos", "arctan"}

Binary == {"add", "sub", "mul", "div", "pow2", "arctan2"}

InPlace ==
    {"add_inplace", "sub_inplace", "mul_inplace", "div_inplace",
     "pow_inplace", "pow2_inplace"}

Arithmetic == Unary \cup Binary \cup {"pow"}

\* the parameter list of each def
Params(f) ==
    IF f = "interp" THEN <<"X", "Xp", "Fp", "varFp", "left", "right">>
    ELSE IF f \in Unary THEN <<"X", "varX">>
    ELSE IF f \in {"pow", "pow_inplace"} THEN <<"X", "varX", "n">>
    ELSE <<"X", "varX", "Y", "varY">>

Body(f) ==
    CASE f = "interp" -> interp
      [] f = "div" -> div
      [] f = "mul" -> mul
      [] f = "sub" -> sub
      [] f = "add" -> add
      [] f = "exp" -> exp
      [] f = "log" -> log
      [] f = "sin" -> sin
      [] f = "cos" -> cos
      [] f = "tan" -> tan
      [] f = "arcsin" -> arcsin
      [] f = "arccos" -> arccos
      [] f = "arctan" -> arctan
      [] f = "arctan2" -> arctan2
      [] f = "pow" -> pow
      [] f = "pow2" -> pow2
      [] f = "div_inplace" -> div_inplace
      [] f = "mul_inplace" -> mul_inplace
      [] f = "sub_inplace" -> sub_inplace
      [] f = "add_inplace" -> add_inplace
      [] f = "pow_inplace" -> pow_inplace
      [] f = "pow2_inplace" -> pow2_inplace

\* every name a function of the module binds
Names ==
    {"X", "varX", "Y", "varY", "n", "Z", "varZ", "T",
     "Xp", "Fp", "varFp", "left", "right", "idx", "p", "F", "varF"}

(***************************************************************************)
(* The interpreter.  A frame st is [heap, env, written, ret]: heap is the  *)
(* sequence of objects (an address is a position in it), env binds each    *)
(* name to an address (0: unbound), written is the set of addresses        *)
(* stored into so far, ret is NoneV while the body runs, then the returned *)
(* pair of addresses or the exception raised.                              *)
(***************************************************************************)
Lookup(e, id) == IF id \in DOMAIN e THEN e[id] ELSE 0

Fail(st, x) == [st EXCEPT !.ret = x]

Alloc(st, x) == [st EXCEPT !.heap = Append(@, x)]

Returned(a, b) == [t |-> "ret", v |-> <<a, b>>]

\* the frame of a call f(args) made from frame st: the parameters are bound
\* to the objects the argument names denote
CalleeFrame(f, args, st) ==
    [heap |-> st.heap,
     env |-> [nm \in Names |->
                IF \E i \in 1..Len(Params(f)) : Params(f)[i] = nm
                THEN Lookup(st.env,
                       args[CHOOSE i \in 1..Len(Params(f)) :
                                Params(f)[i] = nm].c)
                ELSE 0],
     written |-> {},
     ret |-> NoneV]

\* what the caller gets from a finished call: the pair of objects returned
CallResult(fin) ==
    IF fin.ret.t = "err" THEN fin.ret
    ELSE Tup(<<fin.heap[fin.ret.v[1]], fin.heap[fin.ret.v[2]]>>)

RECURSIVE Eval(_, _), Step(_, _), RunBody(_, _, _)

\* expression e in frame st, its operands being evaluated to kids
Node(e, st, kids) ==
    CASE e.k = "name" ->
           (IF Lookup(st.env, e.c) = 0 THEN Err("NameError")
            ELSE st.heap[Lookup(st.env, e.c)])
      [] e.k = "const" -> Num(<<e.c, 1>>)
      [] e.k = "str" -> [t |-> "str", v |-> e.c]
      [] e.k = "bin" -> BinOp(e.c, kids[1], kids[2])
      \* the attribute np.f is looked up before the arguments are evaluated
      [] e.k = "np" ->
           (IF e.c \notin NumpyNames THEN Err("AttributeError")
            ELSE NpApply(e.c, kids))
      [] e.k = "index" -> Subscript(kids[1], kids[2])
      [] e.k = "slice" -> PySlice(kids[1], e.c[1], e.c[2])
      [] e.k = "tuple" -> (IF HasErr(kids) THEN FirstErr(kids) ELSE Tup(kids))
      [] e.k = "call" ->
           (IF HasErr(kids) THEN FirstErr(kids)
            ELSE CallResult(RunBody(Body(e.c), CalleeFrame(e.c, e.args, st), 1)))

\* the value of expression e in frame st
Eval(e, st) == Node(e, st, [i \in 1..Len(e.args) |-> Eval(e.args[i], st)])

\* the frame once expression e, of value x, denotes an object: a name denotes
\* the object it is bound to, any other expression a new object
Place(st, e, x) == IF e.k = "name" THEN st ELSE Alloc(st, x)

\* the address of that object
Addr(st, e) ==
    IF e.k = "name" THEN Lookup(st.env, e.c) ELSE Len(st.heap) + 1

\* tgt = e
DoAssign(st, tgt, e, x) ==
    IF x.t = "err" THEN Fail(st, x)
    ELSE [Place(st, e, x) EXCEPT !.env[tgt] = Addr(st, e)]

\* tgt o= e, with new the value of tgt o e
DoAug(st, tgt, new) ==
    IF Lookup(st.env, tgt) = 0 THEN Fail(st, Err("NameError"))
    ELSE IF new.t = "err" THEN Fail(st, new)
    \* an array is updated where it is stored
    ELSE IF st.heap[Lookup(st.env, tgt)].t = "arr"
         THEN (IF new.t = "arr"
               THEN [st EXCEPT !.heap[Lookup(st.env, tgt)] = new,
                               !.written = @ \cup {Lookup(st.env, tgt)}]
               ELSE Fail(st, Err("TypeError")))
    \* a number is immutable: the name is bound to the result
    ELSE [Alloc(st, new) EXCEPT !.env[tgt] = Len(st.heap) + 1]

\* F[m] = x for a boolean mask m and a scalar x
SetMasked(s, m, x) == [i \in 1..Len(s) |-> IF m[i] THEN x ELSE s[i]]

\* tgt[m] = x[i]
DoSetItem(st, tgt, m, x, i) ==
    IF x.t = "err" THEN Fail(st, x)
    ELSE IF Lookup(st.env, tgt) = 0 THEN Fail(st, Err("NameError"))
    ELSE IF m.t = "err" THEN Fail(st, m)
    ELSE IF \/ x.t # "tuple"
            \/ m.t # "mask"
            \/ st.heap[Lookup(st.env, tgt)].t # "arr"
         THEN Fail(st, Err("TypeError"))
    ELSE IF x.v[i].t # "num" THEN Fail(st, Err("TypeError"))
    ELSE IF Len(m.v) # Len(st.heap[Lookup(st.env, tgt)].v)
         THEN Fail(st, Err("IndexError"))
    ELSE [st EXCEPT !.heap[Lookup(st.env, tgt)] =
                        Arr(SetMasked(@.v, m.v, x.v[i].v)),
                    !.written = @ \cup {Lookup(st.env, tgt)}]

\* return a, b
DoReturn(st, a, b, x, y) ==
    IF x.t = "err" THEN Fail(st, x)
    ELSE IF y.t = "err" THEN Fail(st, y)
    ELSE [Place(Place(st, a, x), b, y) EXCEPT
             !.ret = Returned(Addr(st, a), Addr(Place(st, a, x), b))]

\* a statement with one expression
Do1(stmt, st, x) ==
    CASE stmt.s = "assign" -> DoAssign(st, stmt.tgt, stmt.e, x)
      [] stmt.s = "aug" ->
           DoAug(st, stmt.tgt,
                 BinOp(stmt.o,
                       IF Lookup(st.env, stmt.tgt) = 0 THEN Err("NameError")
                       ELSE st.heap[Lookup(st.env, stmt.tgt)],
                       x))
      [] stmt.s = "ifnone" ->
           (IF st.heap[Lookup(st.env, stmt.tgt)].t = "none"
            THEN DoAssign(st, stmt.tgt, stmt.e, x)
            ELSE st)

\* a statement with two expressions
Do2(stmt, st, x, y) ==
    IF stmt.s = "return" THEN DoReturn(st, stmt.e, stmt.e2, x, y)
    ELSE DoSetItem(st, stmt.tgt, y, x, stmt.i)

\* one statement
Step(stmt, st) ==
    IF stmt.s = "del"
    THEN (IF Lookup(st.env, stmt.tgt) = 0 THEN Fail(st, Err("NameError"))
          ELSE [st EXCEPT !.env[stmt.tgt] = 0])
    ELSE IF stmt.s \in {"return", "setitem"}
    THEN Do2(stmt, st, Eval(stmt.e, st), Eval(stmt.e2, st))
    ELSE Do1(stmt, st, Eval(stmt.e, st))

\* the body from statement k to its return (or to the exception)
RunBody(body, st, k) ==
    IF k > Len(body) \/ st.ret.t # "none" THEN st
    ELSE RunBody(body, Step(body[k], st), k + 1)

(***************************************************************************)
(* The state machine: a caller holding arrays calls one function of the    *)
(* module, which then runs statement by statement.                         *)
(*   heap, env, written, ret: the running frame (see the interpreter)      *)
(*   op: the function running, "idle" before the call                      *)
(*   pc: the statement to run next                                         *)
(*   pre: the frame as it was when the function was entered                *)
(***************************************************************************)
ArrLen == 1

MaxTab == 3

XVals == {<<-1, 2>>, <<1, 2>>, <<2, 1>>}

YVals == {<<0, 1>>, <<2, 1>>, <<3, 1>>}

VarVals == {<<0, 1>>, <<1, 1>>}

NVals == {-1, 2, 3}

XpVals == {<<0, 1>>, <<1, 1>>, <<2, 1>>}

\* the (Fp[i], varFp[i]) a table point may carry
PointVals == {<< <<1, 1>>, <<1, 2>> >>, << <<3, 1>>, <<2, 1>> >>}

QueryVals == {<<-1, 1>>, <<0, 1>>, <<1, 2>>, <<1, 1>>, <<2, 1>>, <<3, 1>>}

\* the left=(v, e) and right=(v, e) a caller may pass instead of None
LeftArg == Tup(<<Num(<<5, 1>>), Num(<<7, 1>>)>>)

RightArg == Tup(<<Num(<<6, 1>>), Num(<<8, 1>>)>>)

Arrays(V) == [1..ArrLen -> V]

NonDecreasing(s) == \A i \in 1..(Len(s) - 1) : fLe(s[i], s[i + 1])

Increasing(s) == \A i \in 1..(Len(s) - 1) : fLt(s[i], s[i + 1])

Bind(b) == [nm \in Names |-> IF nm \in DOMAIN b THEN b[nm] ELSE 0]

Frame == [heap |-> heap, env |-> env, written |-> written, ret |-> ret]

\* the caller holds X, varX, Y, varY, each an array of its own
InitArith ==
    \E x \in Arrays(XVals), vx \in Arrays(VarVals),
       y \in Arrays(YVals), vy \in Arrays(VarVals) :
        /\ heap = <<Arr(x), Arr(vx), Arr(y), Arr(vy)>>
        /\ env = Bind([X |-> 1, varX |-> 2, Y |-> 3, varY |-> 4])

\* the caller holds a query array X and a table Xp, Fp, varFp, Xp sorted
InitInterp ==
    \E len \in 1..MaxTab :
      \E xp \in [1..len -> XpVals], pt \in [1..len -> PointVals],
         x \in Arrays(QueryVals) :
        /\ NonDecreasing(xp)
        /\ heap = <<Arr(x), Arr(xp), Arr([i \in 1..len |-> pt[i][1]]),
                    Arr([i \in 1..len |-> pt[i][2]])>>
        /\ env = Bind([X |-> 1, Xp |-> 2, Fp |-> 3, varFp |-> 4])

Idle ==
    /\ op = "idle"
    /\ pc = 0
    /\ ret = NoneV
    /\ written = {}
    /\ pre = Frame

Init == (InitArith \/ InitInterp) /\ Idle

\* the call f(...): the parameters are bound to the caller's objects
Enter(f, h, b) ==
    /\ op' = f
    /\ pc' = 1
    /\ heap' = h
    /\ env' = Bind(b)
    /\ pre' = [heap |-> h, env |-> Bind(b), written |-> written, ret |-> ret]
    /\ UNCHANGED <<ret, written>>

\* a call of an arithmetic function, with a scalar exponent n for pow
CallArith ==
    /\ op = "idle"
    /\ env["varY"] # 0
    /\ \E f \in Arithmetic \cup InPlace :
        IF f \in {"pow", "pow_inplace"}
        THEN \E k \in NVals :
                Enter(f, Append(heap, Num(<<k, 1>>)),
                      [X |-> env["X"], varX |-> env["varX"],
                       n |-> Len(heap) + 1])
        ELSE IF f \in Unary
        THEN Enter(f, heap, [X |-> env["X"], varX |-> env["varX"]])
        ELSE Enter(f, heap, [X |-> env["X"], varX |-> env["varX"],
                             Y |-> env["Y"], varY |-> env["varY"]])

\* a call of interp, with left and right each None or given
CallInterp ==
    /\ op = "idle"
    /\ env["Xp"] # 0
    /\ \E l \in BOOLEAN, r \in BOOLEAN :
        Enter("interp",
              heap \o << IF l THEN LeftArg ELSE NoneV,
                         IF r THEN RightArg ELSE NoneV >>,
              [X |-> env["X"], Xp |-> env["Xp"], Fp |-> env["Fp"],
               varFp |-> env["varFp"], left |-> Len(heap) + 1,
               right |-> Len(heap) + 2])

Running == op # "idle" /\ ret.t = "none" /\ pc <= Len(Body(op))

Commit(st) ==
    /\ heap' = st.heap
    /\ env' = st.env
    /\ written' = st.written
    /\ ret' = st.ret
    /\ pc' = pc + 1
    /\ UNCHANGED <<op, pre>>

\* the statement at pc is of the given kind
AtStmt(kind) == Running /\ Body(op)[pc].s = kind

\* the frame after the statement at pc; a statement that raises ends the
\* call with the exception in ret
After == Step(Body(op)[pc], Frame)

ExecAssign == AtStmt("assign") /\ Commit(After)

ExecAug == AtStmt("aug") /\ Commit(After)

ExecDel == AtStmt("del") /\ Commit(After)

ExecIfNone == AtStmt("ifnone") /\ Commit(After)

ExecSetItem == AtStmt("setitem") /\ Commit(After)

ExecReturn == AtStmt("return") /\ Commit(After)

Next ==
    \/ CallArith
    \/ CallInterp
    \/ ExecAssign
    \/ ExecAug
    \/ ExecDel
    \/ ExecIfNone
    \/ ExecSetItem
    \/ ExecReturn

Spec == Init /\ [][Next]_vars

(***************************************************************************)
(* Known closed forms: div and pow on the operands of the worked examples, *)
(* passed as arrays or as plain numbers.                                   *)
(***************************************************************************)
ExampleX == {<<6, 1>>, <<2, 1>>, <<-2, 1>>, <<0, 1>>}

ExampleVarX == {<<1, 25>>, <<1, 100>>}

ExampleY == {<<2, 1>>, <<-4, 1>>, <<0, 1>>}

ExampleVarY == {<<1, 100>>, <<0, 1>>}

InitClosedForm ==
    /\ \/ \E x \in Arrays(ExampleX), vx \in Arrays(ExampleVarX),
             y \in Arrays(ExampleY), vy \in Arrays(ExampleVarY) :
              heap = <<Arr(x), Arr(vx), Arr(y), Arr(vy)>>
       \/ \E x \in ExampleX, vx \in ExampleVarX,
             y \in ExampleY, vy \in ExampleVarY :
              heap = <<Num(x), Num(vx), Num(y), Num(vy)>>
    /\ env = Bind([X |-> 1, varX |-> 2, Y |-> 3, varY |-> 4])
    /\ Idle

CallDiv ==
    /\ op = "idle"
    /\ Enter("div", heap, [X |-> env["X"], varX |-> env["varX"],
                           Y |-> env["Y"], varY |-> env["varY"]])

CallPow ==
    /\ op = "idle"
    /\ \E k \in NVals :
        Enter("pow", Append(heap, Num(<<k, 1>>)),
              [X |-> env["X"], varX |-> env["varX"], n |-> Len(heap) + 1])

NextClosedForm ==
    \/ CallDiv
    \/ CallPow
    \/ ExecAssign
    \/ ExecAug
    \/ ExecReturn

SpecClosedForm == InitClosedForm /\ [][NextClosedForm]_vars

(***************************************************************************)
(* Properties.  A call is looked at through the frame it was entered with  *)
(* (pre) and the frame it has reached.                                     *)
(***************************************************************************)
Zero == <<0, 1>>

One == <<1, 1>>

\* the call has ended, by a return or by an exception
Finished == op # "idle" /\ ret.t # "none"

\* the object an argument was when the call was entered
In(nm) == pre.heap[pre.env[nm]]

\* the returned pair
Value == heap[ret.v[1]]

Variance == heap[ret.v[2]]

\* the items of an array, or the one item of a plain number
Items(x) == IF x.t = "arr" THEN x.v ELSE <<x.v>>

Positive(x) == \A i \in 1..Len(x.v) : fLt(Zero, x.v[i])

NonZero(x) == \A i \in 1..Len(x.v) : IsFinite(x.v[i]) /\ ~IsZero(x.v[i])

\* every entry of an array of one or two dimensions is >= 0
NonNegative(x) ==
    CASE x.t = "arr" -> \A i \in 1..Len(x.v) : fLe(Zero, x.v[i])
      [] x.t = "arr2" ->
           \A r \in 1..Len(x.v) : \A i \in 1..Len(x.v[r]) : fLe(Zero, x.v[r][i])
      [] OTHER -> FALSE

\* the out-of-place function an in-place function stands for
Twin(f) ==
    CASE f = "add_inplace" -> "add"
      [] f = "sub_inplace" -> "sub"
      [] f = "mul_inplace" -> "mul"
      [] f = "div_inplace" -> "div"
      [] f = "pow_inplace" -> "pow"
      [] f = "pow2_inplace" -> "pow2"

\* the out-of-place function run on the operands as they were at entry
OutOfPlace == RunBody(Body(Twin(op)), pre, 1)

PositiveOperands ==
    \A nm \in {"X", "varX", "Y", "varY"} : pre.env[nm] # 0 => Positive(In(nm))

\* C1: for positive array operands in distinct storage, a finished in-place
\* call has returned X and varX themselves, and they hold, element by
\* element, the value and the variance that the out-of-place function
\* returns for the operands as they were before the call.
InPlaceEqualsOutOfPlace ==
    (op \in InPlace /\ Finished /\ PositiveOperands) =>
        /\ ret = Returned(pre.env["X"], pre.env["varX"])
        /\ OutOfPlace.ret.t = "ret"
        /\ heap[pre.env["X"]] = OutOfPlace.heap[OutOfPlace.ret.v[1]]
        /\ heap[pre.env["varX"]] = OutOfPlace.heap[OutOfPlace.ret.v[2]]

\* C2: after a call of an in-place function, the storage of Y, of varY and
\* of the exponent n holds exactly what it held before the call.
OnlyFirstOperandMutated ==
    (op \in InPlace /\ Finished) =>
        \A nm \in {"Y", "varY", "n"} :
            pre.env[nm] # 0 => heap[pre.env[nm]] = In(nm)

OutOfPlaceOps ==
    {"add", "sub", "mul", "div", "pow", "pow2", "exp", "log", "interp"}

\* C3: throughout a call of add, sub, mul, div, pow, pow2, exp, log or
\* interp no object that existed at entry is stored into or changed, and
\* the two arrays returned are distinct objects created during the call.
FreshResultInputsKept ==
    op \in OutOfPlaceOps =>
        /\ \A a \in 1..Len(pre.heap) : a \notin written /\ heap[a] = pre.heap[a]
        /\ ret.t = "ret" =>
              /\ ret.v[1] > Len(pre.heap)
              /\ ret.v[2] > Len(pre.heap)
              /\ ret.v[1] # ret.v[2]

\* div has returned, having updated its intermediates in place on the way
DivReturnedAfterInPlaceSteps ==
    op = "div" /\ ret.t = "ret" /\ written # {} /\ ret.v[2] \in written

\* C4: a finished call of an arithmetic function on arrays of one length
\* has returned (no exception), and the variance returned has the shape of
\* the value returned.
ReturnsPairOfOneShape ==
    (op \in Arithmetic /\ Finished) =>
        /\ ret.t = "ret"
        /\ Shape(Value) = Shape(Variance)

\* the operands are in the domain of the function called
InDomain ==
    /\ \A nm \in {"varX", "varY"} :
           pre.env[nm] # 0 => NonNegative(In(nm))
    /\ op \in {"div", "arctan2"} => NonZero(In("Y"))
    /\ op \in {"pow", "pow2", "log"} => Positive(In("X"))
    /\ op \in {"arcsin", "arccos"} =>
           \A i \in 1..Len(In("X").v) :
               fLt(<<-1, 1>>, In("X").v[i]) /\ fLt(In("X").v[i], One)

\* C5: for non-negative input variances and operands in the domain, the
\* variance an arithmetic function returns has no negative entry.
VarianceNonNegative ==
    (op \in Arithmetic /\ ret.t = "ret" /\ InDomain) => NonNegative(Variance)

\* the query and the table interp was called with
Xq == In("X").v

Xp == In("Xp").v

Fp == In("Fp").v

varFp == In("varFp").v

NoOverride == In("left").t = "none" /\ In("right").t = "none"

\* what interp returned for query j
ResultAt(j) == <<Value.v[j], Variance.v[j]>>

ExactAt(j, i) == ret.t = "ret" /\ ResultAt(j) = <<Fp[i], varFp[i]>>

\* C6 as stated: for any table with strictly increasing Xp and no left or
\* right override, a query equal to a table point Xp[i] is answered with
\* exactly (Fp[i], varFp[i]).
ExactAtTablePoints ==
    (op = "interp" /\ Finished /\ Increasing(Xp) /\ NoOverride) =>
        \A j \in 1..Len(Xq) : \A i \in 1..Len(Xp) :
            Xq[j] = Xp[i] => ExactAt(j, i)

\* C6: for any table of at least two points with strictly increasing Xp
\* and no left or right override, a query equal to a table point Xp[i]
\* (first, interior or last) is answered with exactly (Fp[i], varFp[i]).
ExactAtTablePointsOfTwoOrMore ==
    (op = "interp" /\ Finished /\ Len(Xp) >= 2 /\ Increasing(Xp)
        /\ NoOverride) =>
        \A j \in 1..Len(Xq) : \A i \in 1..Len(Xp) :
            Xq[j] = Xp[i] => ExactAt(j, i)

\* a query at the interior point of a three-point table has been answered
InteriorPointAnswered ==
    /\ op = "interp"
    /\ ret.t = "ret"
    /\ Len(Xp) = 3
    /\ Increasing(Xp)
    /\ NoOverride
    /\ \E j \in 1..Len(Xq) : Xq[j] = Xp[2] /\ ExactAt(j, 2)

\* the pair used below the table and the pair used above it
LeftPair ==
    IF In("left").t = "none" THEN <<Fp[1], varFp[1]>>
    ELSE <<In("left").v[1].v, In("left").v[2].v>>

RightPair ==
    IF In("right").t = "none" THEN <<Fp[Len(Fp)], varFp[Len(varFp)]>>
    ELSE <<In("right").v[1].v, In("right").v[2].v>>

\* the interval interp selected for query j, and its weight
Idx(j) == heap[env["idx"]].v[j][1]

Weight(j) == heap[env["p"]].v[j]

\* p*Fp[idx] + (1-p)*Fp[idx+1] and p^2*varFp[idx] + (1-p)^2*varFp[idx+1],
\* the pair interpolated for query j before left and right are stored
InterpolatedAt(j) ==
    <<fAdd(fMul(Weight(j), Fp[Idx(j) + 1]),
           fMul(fSub(One, Weight(j)), Fp[Idx(j) + 2])),
      fAdd(fMul(fMul(Weight(j), Weight(j)), varFp[Idx(j) + 1]),
           fMul(fMul(fSub(One, Weight(j)), fSub(One, Weight(j))),
                varFp[Idx(j) + 2]))>>

Extrapolated ==
    /\ ret.t = "ret"
    /\ \A j \in 1..Len(Xq) :
          IF fLt(Xq[j], Xp[1]) THEN ResultAt(j) = LeftPair
          ELSE IF fLt(Xp[Len(Xp)], Xq[j]) THEN ResultAt(j) = RightPair
          ELSE ResultAt(j) = InterpolatedAt(j)

\* C7 as stated: interp answers a query below Xp[0] with left, or with
\* (Fp[0], varFp[0]) when left is None, a query above Xp[-1] with right, or
\* with (Fp[-1], varFp[-1]) when right is None, and a query inside
\* [Xp[0], Xp[-1]] with the pair interpolated for it, never replaced.
ExtrapolatesWithLeftRight == (op = "interp" /\ Finished) => Extrapolated

\* C7: the same, for a table of at least two points.
ExtrapolatesWithLeftRightOfTwoOrMore ==
    (op = "interp" /\ Finished /\ Len(Xp) >= 2) => Extrapolated

\* a query below the table has been answered with the left that was passed
BelowAnsweredWithLeft ==
    /\ op = "interp"
    /\ ret.t = "ret"
    /\ Len(Xp) >= 2
    /\ In("left").t = "tuple"
    /\ \E j \in 1..Len(Xq) : fLt(Xq[j], Xp[1]) /\ ResultAt(j) = LeftPair

\* the direct formulas of the comments in div and pow
DirectDiv(x, vx, y, vy) ==
    <<fDiv(x, y),
      fDiv(fAdd(vx, fMul(vy, fMul(fDiv(x, y), fDiv(x, y)))), fMul(y, y))>>

DirectPow(x, vx, k) ==
    <<fPowInt(x, k),
      fDiv(fMul(fMul(<<k * k, 1>>, vx),
                fMul(fPowInt(x, k), fPowInt(x, k))),
           fMul(x, x))>>

ReturnedAt(i) == <<Items(Value)[i], Items(Variance)[i]>>

IsNum(x, n, d) == x.t = "num" /\ x.v = <<n, d>>

\* C8: div returns, for every entry with Y # 0, X/Y with the variance
\* (varX + varY*Z^2)/Y^2; pow returns, for every entry with X # 0, X^n with
\* the variance n^2*varX*Z^2/X^2; div(6.0, 0.04, 2.0, 0.01) is (3.0, 0.0325)
\* and pow([2.0], [0.01], 3) is (8.0, 1.44) in every entry.
IndirectEqualsDirect ==
    /\ (op = "div" /\ Finished) =>
          \A i \in 1..Len(Items(In("X"))) :
              ~IsZero(Items(In("Y"))[i]) =>
                  /\ ret.t = "ret"
                  /\ ReturnedAt(i) =
                        DirectDiv(Items(In("X"))[i], Items(In("varX"))[i],
                                  Items(In("Y"))[i], Items(In("varY"))[i])
    /\ (op = "pow" /\ Finished) =>
          \A i \in 1..Len(Items(In("X"))) :
              ~IsZero(Items(In("X"))[i]) =>
                  /\ ret.t = "ret"
                  /\ ReturnedAt(i) =
                        DirectPow(Items(In("X"))[i], Items(In("varX"))[i],
                                  In("n").v[1])
    /\ (op = "div" /\ Finished /\ IsNum(In("X"), 6, 1)
           /\ IsNum(In("varX"), 1, 25) /\ IsNum(In("Y"), 2, 1)
           /\ IsNum(In("varY"), 1, 100)) =>
          ret.t = "ret" /\ IsNum(Value, 3, 1) /\ IsNum(Variance, 13, 400)
    /\ (op = "pow" /\ Finished /\ In("X").t = "arr" /\ In("n").v = <<3, 1>>) =>
          \A i \in 1..Len(In("X").v) :
              (In("X").v[i] = <<2, 1>> /\ In("varX").v[i] = <<1, 100>>) =>
                  ret.t = "ret" /\ ReturnedAt(i) = << <<8, 1>>, <<36, 25>> >>

\* div(6.0, 0.04, 2.0, 0.01) has returned (3.0, 0.0325)
DivExampleReturned ==
    /\ op = "div"
    /\ ret.t = "ret"
    /\ IsNum(In("X"), 6, 1)
    /\ IsNum(In("varX"), 1, 25)
    /\ IsNum(In("Y"), 2, 1)
    /\ IsNum(In("varY"), 1, 100)
    /\ IsNum(Value, 3, 1)
    /\ IsNum(Variance, 13, 400)

\* For each statement of an in-place function, the names it reads for the
\* value the operand had at entry, after the formula and the line comments
\* of the function ("X now has Z": from there on X is read for Z).
ReadsOriginal(f) ==
    CASE f = "div_inplace" ->
           << {"X", "Y"}, {}, {"varY"}, {"varX"}, {}, {"Y"}, {"T"}, {}, {} >>
      [] f = "mul_inplace" ->
           << {"Y"}, {"varX"}, {}, {"X"}, {"T"}, {"varY"}, {}, {"X", "Y"}, {} >>
      [] f = "sub_inplace" -> << {"X", "Y"}, {"varX", "varY"}, {} >>
      [] f = "add_inplace" -> << {"X", "Y"}, {"varX", "varY"}, {} >>
      [] f = "pow_inplace" ->
           << {"varX", "X"}, {"X"}, {"X"}, {}, {}, {}, {} >>
      [] f = "pow2_inplace" ->
           << {"varX", "X"}, {"Y"}, {}, {"X"}, {"varY"}, {}, {}, {},
              {"X", "Y"}, {}, {}, {} >>

\* C9: when a statement of an in-place function reads a name for the value
\* the operand had at entry, nothing has been stored yet into the object
\* the name is bound to, under that name or under any other.
ReadsBeforeOverwrite ==
    (op \in InPlace /\ Running) =>
        \A nm \in ReadsOriginal(op)[pc] : Lookup(env, nm) \notin written

InTable(j) == fLe(Xp[1], Xq[j]) /\ fLe(Xq[j], Xp[Len(Xp)])

Bracketed(j) ==
    /\ 0 <= Idx(j)
    /\ Idx(j) <= Len(Xp) - 2
    /\ InTable(j) =>
          /\ fLe(Xp[Idx(j) + 1], Xq[j])
          /\ fLe(Xq[j], Xp[Idx(j) + 2])

WeightInUnit(j) == fLe(Zero, Weight(j)) /\ fLe(Weight(j), One)

\* idx and p have been computed for a table of at least two points
Selected == op = "interp" /\ pc >= 3 /\ Len(Xp) >= 2

\* C10 as stated: for a table of at least two points with non-decreasing
\* Xp, every query selects an idx with 0 <= idx <= len(Xp)-2, and a query
\* inside [Xp[0], Xp[-1]] has Xp[idx] <= x <= Xp[idx+1] and a weight p in
\* [0, 1].
BracketAndUnitWeight ==
    Selected =>
        /\ env["idx"] # 0
        /\ env["p"] # 0
        /\ \A j \in 1..Len(Xq) :
              Bracketed(j) /\ (InTable(j) => WeightInUnit(j))

\* C10: the same, the weight p being in [0, 1] when the selected interval
\* has Xp[idx] < Xp[idx+1]; p is 0/0 when its two ends are equal.
BracketAndUnitWeightOffDuplicates ==
    Selected =>
        /\ env["idx"] # 0
        /\ env["p"] # 0
        /\ \A j \in 1..Len(Xq) :
              /\ Bracketed(j)
              /\ (InTable(j) /\ fLt(Xp[Idx(j) + 1], Xp[Idx(j) + 2])) =>
                    WeightInUnit(j)

\* a query strictly inside an interval of a three-point table has selected
\* that interval, with a weight strictly between 0 and 1
InnerQuerySelected ==
    /\ Selected
    /\ Len(Xp) = 3
    /\ Increasing(Xp)
    /\ \E j \in 1..Len(Xq) :
          /\ fLt(Xp[Idx(j) + 1], Xq[j])
          /\ fLt(Xq[j], Xp[Idx(j) + 2])
          /\ fLt(Zero, Weight(j))
          /\ fLt(Weight(j), One)

====
